---- MODULE Spec2Model ----
(***************************************************************************)
(* Model of the two command-line tools of the portfolio repository:        *)
(*   .githooks/watermark.py      apply / verify an invisible watermark     *)
(*   scripts/convert_to_webp.py  batch conversion to lossless WebP         *)
(* Paths are sequences of one-character strings so that lower(), upper(),  *)
(* endswith(), rsplit() and with_suffix() are computed, not assumed.       *)
(***************************************************************************)
EXTENDS Integers, Sequences, FiniteSets, TLC

VARIABLES disk, command, files, idx, status, all_good, calls, runs,
          dir, dirExists, overwrite, cpc, image_files, cidx,
          converted_count, skipped_count, error_count, visits, saves,
          total_original_size, total_webp_size, handed, ret, cruns,
          prevAllConverted

wmVars == <<disk, command, files, idx, status, all_good, calls, runs>>
cvVars == <<dir, dirExists, overwrite, cpc, image_files, cidx,
            converted_count, skipped_count, error_count, visits, saves,
            total_original_size, total_webp_size, handed, ret, cruns,
            prevAllConverted>>
vars == <<disk, command, files, idx, status, all_good, calls, runs,
          dir, dirExists, overwrite, cpc, image_files, cidx,
          converted_count, skipped_count, error_count, visits, saves,
          total_original_size, total_webp_size, handed, ret, cruns,
          prevAllConverted>>

(* ---------------- bounds ---------------- *)
MaxFilesOnDisk == 2
MaxArgs == 2
MaxRuns == 2
MaxDirFiles == 2
MaxConvRuns == 2

(* ---------------- strings ---------------- *)
LowerLetters == <<"a","b","c","d","e","f","g","h","i","j","k","l","m",
                  "n","o","p","q","r","s","t","u","v","w","x","y","z">>
UpperLetters == <<"A","B","C","D","E","F","G","H","I","J","K","L","M",
                  "N","O","P","Q","R","S","T","U","V","W","X","Y","Z">>

Letters == {LowerLetters[i] : i \in 1..26} \cup {UpperLetters[i] : i \in 1..26}

\* str.lower() and str.upper(), letter by letter
LowerMap ==
  [c \in Letters |->
     IF \E i \in 1..26 : UpperLetters[i] = c
     THEN LowerLetters[CHOOSE i \in 1..26 : UpperLetters[i] = c]
     ELSE c]
UpperMap ==
  [c \in Letters |->
     IF \E i \in 1..26 : LowerLetters[i] = c
     THEN UpperLetters[CHOOSE i \in 1..26 : LowerLetters[i] = c]
     ELSE c]

LowerChar(c) == IF c \in Letters THEN LowerMap[c] ELSE c
UpperChar(c) == IF c \in Letters THEN UpperMap[c] ELSE c

Lower(s) == [i \in 1..Len(s) |-> LowerChar(s[i])]
Upper(s) == [i \in 1..Len(s) |-> UpperChar(s[i])]

EndsWith(s, suf) ==
  /\ Len(suf) <= Len(s)
  /\ SubSeq(s, Len(s) - Len(suf) + 1, Len(s)) = suf

\* s.rfind(c): the last index of c in s, 0 when there is none
RFind(s, c) ==
  IF \E i \in 1..Len(s) : s[i] = c
  THEN CHOOSE i \in 1..Len(s) : s[i] = c /\ \A j \in (i+1)..Len(s) : s[j] # c
  ELSE 0

\* s.rsplit(".", 1)[0]
RSplitDot(s) == IF RFind(s, ".") = 0 THEN s ELSE SubSeq(s, 1, RFind(s, ".") - 1)

(* ---------------- watermark.py ---------------- *)
WATERMARK_TEXT == <<194,169,32,65,108,101,120,32,67,108,97,105,114,114,32,50,48,50,53>>
\* what the decoder recovers from an image that does not carry the watermark:
\* a payload of the declared length differing in the last byte
OtherPayload == <<194,169,32,65,108,101,120,32,67,108,97,105,114,114,32,50,48,50,52>>

LelemPng == <<"a","s","s","e","t","s","/","p","i","c","s","/","l","e","l","e","m",".","p","n","g">>
LelemJpg == <<"a","s","s","e","t","s","/","p","i","c","s","/","l","e","l","e","m",".","j","p","g">>
AJpeg == <<"a",".","J","P","E","G">>
APng == <<"a",".","p","n","g">>

SKIP_FILES == {LelemPng}

ArgPaths == {LelemPng, LelemJpg, AJpeg, APng}
DiskPaths == ArgPaths

Missing == [kind |-> "missing", small |-> FALSE, payload |-> <<>>]
Corrupt == [kind |-> "corrupt", small |-> FALSE, payload |-> <<>>]
\* decodable images: large ones with or without the watermark, and one too
\* small for the watermark library
Images ==
  [kind : {"image"}, small : {FALSE}, payload : {WATERMARK_TEXT, OtherPayload}]
    \cup {[kind |-> "image", small |-> TRUE, payload |-> OtherPayload]}
None == [kind |-> "None", small |-> FALSE, payload |-> <<>>]

TooSmallText == "image too small, should be larger than 256x256"
WriteErrorText == "could not write image"
RemoveErrorText == "Permission denied"

NoneMsg == [tag |-> "None", path |-> <<>>, text |-> ""]
Msg(tag, path) == [tag |-> tag, path |-> path, text |-> ""]
ErrMsg(text) == [tag |-> "Error", path |-> <<>>, text |-> text]

Ret(ok, msg, ops, d) == [ok |-> ok, msg |-> msg, ops |-> ops, disk |-> d]

\* cv2.imread: the pixel buffer, or None for a missing or undecodable file
imread(d, path) == IF d[path].kind = "image" THEN d[path] ELSE None

\* WatermarkEncoder.encode / WatermarkDecoder.decode raise on small images
LibraryRaises(img) == img.small
encode(img) == [img EXCEPT !.payload = WATERMARK_TEXT]
decode(img) == img.payload

\* cv2.imwrite / os.remove on the file system
imwrite(d, path, img) == [d EXCEPT ![path] = img]
os_remove(d, path) == [d EXCEPT ![path] = Missing]

\* verify_watermark without the skip-list test
verify_watermark_noskip(d, image_path, skip_check) ==
  LET img == imread(d, image_path) IN
  IF img = None
  THEN Ret(FALSE, Msg("Could not read image", image_path), <<"imread">>, d)
  ELSE IF LibraryRaises(img)
  THEN Ret(FALSE, ErrMsg(TooSmallText), <<"imread", "decode">>, d)
  ELSE Ret(decode(img) = WATERMARK_TEXT, NoneMsg, <<"imread", "decode">>, d)

\* verify_watermark comparing the lengths of the payloads only
verify_watermark_lenonly(d, image_path, skip_check) ==
  IF skip_check /\ image_path \in SKIP_FILES
  THEN Ret(TRUE, Msg("Skipped", image_path), <<>>, d)
  ELSE LET img == imread(d, image_path) IN
       IF img = None
       THEN Ret(FALSE, Msg("Could not read image", image_path), <<"imread">>, d)
       ELSE IF LibraryRaises(img)
       THEN Ret(FALSE, ErrMsg(TooSmallText), <<"imread", "decode">>, d)
       ELSE Ret(Len(decode(img)) = Len(WATERMARK_TEXT), NoneMsg,
                <<"imread", "decode">>, d)

verify_watermark(d, image_path, skip_check) ==
  IF skip_check /\ image_path \in SKIP_FILES
  THEN Ret(TRUE, Msg("Skipped", image_path), <<>>, d)
  ELSE LET img == imread(d, image_path) IN
       IF img = None
       THEN Ret(FALSE, Msg("Could not read image", image_path), <<"imread">>, d)
       ELSE IF LibraryRaises(img)
       THEN Ret(FALSE, ErrMsg(TooSmallText), <<"imread", "decode">>, d)
       ELSE Ret(decode(img) = WATERMARK_TEXT, NoneMsg, <<"imread", "decode">>, d)

IsJpegPath(image_path) ==
  EndsWith(Lower(image_path), <<".","j","p","g">>)
    \/ EndsWith(Lower(image_path), <<".","j","p","e","g">>)

PngPathOf(image_path) == RSplitDot(image_path) \o <<".","p","n","g">>

\* apply_body writing the image as read instead of the watermarked one
apply_body_unmarked(d, image_path, env, pre) ==
  LET img == imread(d, image_path) IN
  IF img = None
  THEN Ret(FALSE, Msg("Could not read image", image_path), pre \o <<"imread">>, d)
  ELSE IF LibraryRaises(img)
  THEN Ret(FALSE, ErrMsg(TooSmallText), pre \o <<"imread", "encode">>, d)
  ELSE
    LET ops == pre \o <<"imread", "encode", "imwrite">> IN
    IF env.write = "raise" THEN Ret(FALSE, ErrMsg(WriteErrorText), ops, d)
    ELSE IF IsJpegPath(image_path)
    THEN LET png_path == PngPathOf(image_path) IN
         IF env.write = "ok"
         THEN IF env.remove = "raise"
              THEN Ret(FALSE, ErrMsg(RemoveErrorText), ops \o <<"remove">>,
                       imwrite(d, png_path, img))
              ELSE Ret(TRUE, Msg("Converted to PNG and watermarked", png_path),
                       ops \o <<"remove">>,
                       os_remove(imwrite(d, png_path, img), image_path))
         ELSE Ret(FALSE, NoneMsg, ops, d)
    ELSE IF env.write = "ok"
         THEN Ret(TRUE, NoneMsg, ops, imwrite(d, image_path, img))
         ELSE Ret(FALSE, NoneMsg, ops, d)

\* apply_body removing the original JPEG whatever cv2.imwrite returned
apply_body_removes_always(d, image_path, env, pre) ==
  LET img == imread(d, image_path) IN
  IF img = None
  THEN Ret(FALSE, Msg("Could not read image", image_path), pre \o <<"imread">>, d)
  ELSE IF LibraryRaises(img)
  THEN Ret(FALSE, ErrMsg(TooSmallText), pre \o <<"imread", "encode">>, d)
  ELSE
    LET watermarked == encode(img)
        ops == pre \o <<"imread", "encode", "imwrite">>
    IN
    IF env.write = "raise" THEN Ret(FALSE, ErrMsg(WriteErrorText), ops, d)
    ELSE IF IsJpegPath(image_path)
    THEN LET png_path == PngPathOf(image_path)
             d1 == IF env.write = "ok" THEN imwrite(d, png_path, watermarked) ELSE d
         IN
         IF env.remove = "raise"
         THEN Ret(FALSE, ErrMsg(RemoveErrorText), ops \o <<"remove">>, d1)
         ELSE Ret(env.write = "ok",
                  IF env.write = "ok"
                  THEN Msg("Converted to PNG and watermarked", png_path)
                  ELSE NoneMsg,
                  ops \o <<"remove">>, os_remove(d1, image_path))
    ELSE IF env.write = "ok"
         THEN Ret(TRUE, NoneMsg, ops, imwrite(d, image_path, watermarked))
         ELSE Ret(FALSE, NoneMsg, ops, d)

\* the part of apply_watermark after the two early returns (lines 37-59)
apply_body(d, image_path, env, pre) ==
  LET img == imread(d, image_path) IN
  IF img = None
  THEN Ret(FALSE, Msg("Could not read image", image_path), pre \o <<"imread">>, d)
  ELSE IF LibraryRaises(img)
  THEN Ret(FALSE, ErrMsg(TooSmallText), pre \o <<"imread", "encode">>, d)
  ELSE
    LET watermarked == encode(img)
        ops == pre \o <<"imread", "encode", "imwrite">>
    IN
    IF env.write = "raise" THEN Ret(FALSE, ErrMsg(WriteErrorText), ops, d)
    ELSE IF IsJpegPath(image_path)
    THEN LET png_path == PngPathOf(image_path) IN
         IF env.write = "ok"
         THEN IF env.remove = "raise"
              THEN Ret(FALSE, ErrMsg(RemoveErrorText), ops \o <<"remove">>,
                       imwrite(d, png_path, watermarked))
              ELSE Ret(TRUE, Msg("Converted to PNG and watermarked", png_path),
                       ops \o <<"remove">>,
                       os_remove(imwrite(d, png_path, watermarked), image_path))
         ELSE Ret(FALSE, NoneMsg, ops, d)
    ELSE IF env.write = "ok"
         THEN Ret(TRUE, NoneMsg, ops, imwrite(d, image_path, watermarked))
         ELSE Ret(FALSE, NoneMsg, ops, d)

\* apply_watermark without the check for an existing watermark
apply_watermark_nocheck(d, image_path, env) ==
  IF image_path \in SKIP_FILES
  THEN Ret(TRUE, Msg("Skipped", image_path), <<>>, d)
  ELSE apply_body(d, image_path, env, <<>>)

apply_watermark(d, image_path, env) ==
  IF image_path \in SKIP_FILES
  THEN Ret(TRUE, Msg("Skipped", image_path), <<>>, d)
  ELSE LET v == verify_watermark(d, image_path, FALSE) IN
       IF v.ok
       THEN Ret(TRUE, Msg("Already watermarked", image_path), v.ops, v.disk)
       ELSE apply_body(v.disk, image_path, env, v.ops)

(* ---------------- watermark.py: main ---------------- *)
Files == {Missing, Corrupt} \cup Images
Envs == [write : {"ok", "false", "raise"}, remove : {"ok", "raise"}]
NoEnv == [write |-> "ok", remove |-> "ok"]

ArgLists(n) == UNION {[1..k -> ArgPaths] : k \in 0..n}

OnDisk(d) == {p \in DOMAIN d : d[p].kind # "missing"}

Call(fn, path, r, env) ==
  [fn |-> fn, path |-> path, ok |-> r.ok, msg |-> r.msg, ops |-> r.ops,
   write |-> IF \E i \in 1..Len(r.ops) : r.ops[i] = "imwrite" THEN env.write ELSE "-",
   remove |-> IF \E i \in 1..Len(r.ops) : r.ops[i] = "remove" THEN env.remove ELSE "-",
   run |-> runs]

WmInit ==
  /\ \E S \in {T \in SUBSET DiskPaths : Cardinality(T) <= MaxFilesOnDisk} :
       \E f \in [S -> Files \ {Missing}] :
         disk = [p \in DiskPaths |-> IF p \in S THEN f[p] ELSE Missing]
  /\ command = "missing"
  /\ files = <<>>
  /\ idx = 1
  /\ status = "idle"
  /\ all_good = TRUE
  /\ calls = <<>>
  /\ runs = 0

\* a new process: sys.argv is read (lines 82-92)
WmStart(cmd, fl) ==
  /\ status # "running"
  /\ command' = cmd
  /\ files' = IF cmd = "missing" THEN <<>> ELSE fl
  /\ idx' = 1
  /\ status' = "running"
  /\ all_good' = TRUE
  /\ runs' = runs + 1
  /\ UNCHANGED <<disk, calls>>

\* len(sys.argv) < 2 (lines 82-87)
WmUsage ==
  /\ status = "running" /\ command = "missing"
  /\ status' = "exit1"
  /\ UNCHANGED <<disk, command, files, idx, all_good, calls, runs>>

\* unknown command (lines 128-130)
WmUnknown ==
  /\ status = "running" /\ command = "other"
  /\ status' = "exit1"
  /\ UNCHANGED <<disk, command, files, idx, all_good, calls, runs>>

\* the apply loop going on after a failed file
ApplyStep_continue ==
  /\ status = "running" /\ command = "apply" /\ idx <= Len(files)
  /\ \E env \in Envs :
       LET r == apply_watermark(disk, files[idx], env) IN
       /\ disk' = r.disk
       /\ calls' = Append(calls, Call("apply", files[idx], r, env))
  /\ idx' = idx + 1
  /\ UNCHANGED <<command, files, status, all_good, runs>>

\* one iteration of the apply loop (lines 95-108)
ApplyStep ==
  /\ status = "running" /\ command = "apply" /\ idx <= Len(files)
  /\ \E env \in Envs :
       LET r == apply_watermark(disk, files[idx], env) IN
       /\ disk' = r.disk
       /\ calls' = Append(calls, Call("apply", files[idx], r, env))
       /\ IF r.ok
          THEN idx' = idx + 1 /\ status' = status
          ELSE idx' = idx /\ status' = "exit1"
  /\ UNCHANGED <<command, files, all_good, runs>>

\* the apply loop is exhausted: the process ends with status 0
ApplyDone ==
  /\ status = "running" /\ command = "apply" /\ idx > Len(files)
  /\ status' = "exit0"
  /\ UNCHANGED <<disk, command, files, idx, all_good, calls, runs>>

\* one iteration of the verify loop (lines 112-123)
VerifyStep ==
  /\ status = "running" /\ command = "verify" /\ idx <= Len(files)
  /\ LET r == verify_watermark(disk, files[idx], TRUE) IN
       /\ disk' = r.disk
       /\ calls' = Append(calls, Call("verify", files[idx], r, NoEnv))
       /\ all_good' = (all_good /\ r.ok)
  /\ idx' = idx + 1
  /\ UNCHANGED <<command, files, status, runs>>

\* after the verify loop (lines 125-126)
VerifyDone ==
  /\ status = "running" /\ command = "verify" /\ idx > Len(files)
  /\ status' = IF all_good THEN "exit0" ELSE "exit1"
  /\ UNCHANGED <<disk, command, files, idx, all_good, calls, runs>>

(* ---------------- convert_to_webp.py ---------------- *)
\* code points order the characters, as Python compares strings
CharOrder == <<".", "/">> \o UpperLetters \o LowerLetters
CodeMap ==
  [c \in {CharOrder[i] : i \in 1..Len(CharOrder)} |->
     CHOOSE i \in 1..Len(CharOrder) : CharOrder[i] = c]
Code(c) == CodeMap[c]

StrLess(s, t) ==
  \/ \E i \in 1..Len(s) :
        /\ i <= Len(t)
        /\ \A j \in 1..(i-1) : s[j] = t[j]
        /\ Code(s[i]) < Code(t[i])
  \/ /\ Len(s) < Len(t)
     /\ \A j \in 1..Len(s) : s[j] = t[j]

RECURSIVE SetToSeq(_)
SetToSeq(S) ==
  IF S = {} THEN <<>>
  ELSE LET x == CHOOSE y \in S : \A z \in S \ {y} : StrLess(y, z)
       IN <<x>> \o SetToSeq(S \ {x})

\* Path.name, Path.suffix and Path.with_suffix of pathlib
NameOf(path) == SubSeq(path, RFind(path, "/") + 1, Len(path))
SuffixOf(path) ==
  LET name == NameOf(path)
      i == RFind(name, ".")
  IN IF 1 < i /\ i < Len(name) THEN SubSeq(name, i, Len(name)) ELSE <<>>
WithSuffix(path, suffix) ==
  SubSeq(path, 1, Len(path) - Len(SuffixOf(path))) \o suffix

DotJpg == <<".","j","p","g">>
DotJpeg == <<".","j","p","e","g">>
DotPng == <<".","p","n","g">>
DotWebp == <<".","w","e","b","p">>
supported_formats == <<DotJpg, DotJpeg, DotPng>>

CAJpg == <<"a",".","j","p","g">>
CAPng == <<"a",".","p","n","g">>
CBJpeg == <<"b",".","J","P","E","G">>
CCJpg == <<"c",".","J","p","g">>
CSubJpg == <<"s","/","d",".","j","p","g">>
CETxt == <<"e",".","t","x","t">>
CAWebp == <<"a",".","w","e","b","p">>

ImageNames == {CAJpg, CAPng, CBJpeg, CCJpg, CSubJpg}
\* names that come with one content only
FixedNames == {CBJpeg, CCJpg, CSubJpg}
OtherNames == {CETxt, CAWebp}
DirPaths == ImageNames \cup OtherNames
              \cup {WithSuffix(p, DotWebp) : p \in ImageNames \cup OtherNames}

Modes == {"RGB", "RGBA", "P", "LA", "L"}
Absent == [kind |-> "missing", mode |-> "", size |-> 0, gen |-> 0]
Data == [kind |-> "data", mode |-> "", size |-> 1, gen |-> 0]
RgbImage == [kind |-> "image", mode |-> "RGB", size |-> 2, gen |-> 0]
SourceImages == [kind : {"image"}, mode : Modes, size : {2}, gen : {0}]
Webp(mode, gen) == [kind |-> "webp", mode |-> mode, size |-> 1, gen |-> gen]

\* the mode of the image handed to img.save (lines 45-50)
NormalizeMode(mode) ==
  IF mode \in {"RGBA", "LA", "P"}
  THEN (IF mode = "P" THEN "RGBA" ELSE mode)
  ELSE IF mode \notin {"RGB", "RGBA"} THEN "RGB" ELSE mode

CRet(success, osz, wsz, error, d, h, opened) ==
  [success |-> success, original_size |-> osz, webp_size |-> wsz,
   error |-> error, dir |-> d, handed |-> h, opened |-> opened]

convert_image_to_webp(d, input_path, output_path, env, gen) ==
  IF d[input_path].kind # "image"
  THEN CRet(FALSE, 0, 0, "cannot identify image file", d, <<>>, {})
  ELSE LET outmode == NormalizeMode(d[input_path].mode) IN
       IF env.save = "raise"
       THEN CRet(FALSE, 0, 0, "save failed",
                 IF d[output_path].kind = "missing" THEN d
                 ELSE [d EXCEPT ![output_path] = Data],
                 <<outmode>>, {output_path})
       ELSE LET d1 == [d EXCEPT ![output_path] = Webp(outmode, gen)] IN
            IF env.stat = "raise"
            THEN CRet(FALSE, 0, 0, "stat failed", d1, <<outmode>>, {output_path})
            ELSE CRet(TRUE, d1[input_path].size, d1[output_path].size, "None",
                      d1, <<outmode>>, {output_path})

\* input_dir.glob("*" + ext): the direct entries whose name ends with ext
glob(d, ext) ==
  SetToSeq({p \in DOMAIN d : /\ d[p].kind # "missing"
                              /\ RFind(p, "/") = 0
                              /\ EndsWith(p, ext)})

RECURSIVE FindImages(_, _)
FindImages(d, i) ==
  IF i > Len(supported_formats) THEN <<>>
  ELSE glob(d, supported_formats[i]) \o glob(d, Upper(supported_formats[i]))
         \o FindImages(d, i + 1)

Visit(path, outcome) == [path |-> path, outcome |-> outcome]
CEnvs == [save : {"ok", "raise"}, stat : {"ok", "raise"}]
SortedFiles == SortSeq(image_files, StrLess)

CvInit ==
  /\ dirExists \in BOOLEAN
  /\ \E S \in {T \in SUBSET (ImageNames \cup OtherNames) :
                 /\ Cardinality(T) <= MaxDirFiles
                 /\ (~dirExists => T = {})} :
       \E f \in [S -> SourceImages \cup {Data}] :
         /\ \A p \in S \cap OtherNames : f[p] = Data
         /\ \A p \in S \cap FixedNames : f[p] = RgbImage
         /\ dir = [p \in DirPaths |-> IF p \in S THEN f[p] ELSE Absent]
  /\ overwrite = FALSE
  /\ cpc = "idle"
  /\ image_files = <<>>
  /\ cidx = 1
  /\ converted_count = 0
  /\ skipped_count = 0
  /\ error_count = 0
  /\ total_original_size = 0
  /\ total_webp_size = 0
  /\ visits = <<>>
  /\ saves = {}
  /\ handed = {}
  /\ ret = -1
  /\ cruns = 0
  /\ prevAllConverted = FALSE

\* a new process up to the statistics initialisation (lines 88-123)
CvBegin(ow) ==
  /\ cpc \in {"idle", "done"}
  /\ cruns < MaxConvRuns
  /\ overwrite' = ow
  /\ cruns' = cruns + 1
  /\ cidx' = 1
  /\ converted_count' = 0
  /\ skipped_count' = 0
  /\ error_count' = 0
  /\ total_original_size' = 0
  /\ total_webp_size' = 0
  /\ visits' = <<>>
  /\ saves' = {}
  /\ prevAllConverted' = (cpc = "done" /\ image_files # <<>>
                            /\ converted_count = Len(image_files))
  /\ handed' = {}
  /\ UNCHANGED <<dir, dirExists>>

\* the input directory does not exist (lines 95-97)
CvNoDir(ow) ==
  /\ CvBegin(ow)
  /\ ~dirExists
  /\ image_files' = <<>>
  /\ ret' = 1
  /\ cpc' = "done"

\* no supported image file was found (lines 108-111)
CvNoFiles(ow) ==
  /\ CvBegin(ow)
  /\ dirExists
  /\ FindImages(dir, 1) = <<>>
  /\ image_files' = <<>>
  /\ ret' = 0
  /\ cpc' = "done"

\* images were found: the loop starts (lines 103-123)
CvFound(ow) ==
  /\ CvBegin(ow)
  /\ dirExists
  /\ FindImages(dir, 1) # <<>>
  /\ image_files' = FindImages(dir, 1)
  /\ ret' = -1
  /\ cpc' = "loop"

\* the conversion loop without the test for an existing output
CvLoop_noskip ==
  /\ cpc = "loop" /\ cidx <= Len(image_files)
  /\ LET img_path == SortedFiles[cidx]
         webp_path == WithSuffix(img_path, DotWebp)
     IN
     \E env \in CEnvs :
       LET r == convert_image_to_webp(dir, img_path, webp_path, env, cruns) IN
       /\ dir' = r.dir
       /\ saves' = saves \cup r.opened
       /\ handed' = handed \cup
             {<<dir[img_path].mode, r.handed[i]>> : i \in 1..Len(r.handed)}
       /\ skipped_count' = skipped_count
       /\ visits' = Append(visits, Visit(img_path,
                       IF r.success THEN "converted" ELSE "error"))
       /\ IF r.success
          THEN /\ converted_count' = converted_count + 1
               /\ total_original_size' = total_original_size + r.original_size
               /\ total_webp_size' = total_webp_size + r.webp_size
               /\ error_count' = error_count
          ELSE /\ error_count' = error_count + 1
               /\ UNCHANGED <<converted_count, total_original_size,
                              total_webp_size>>
  /\ cidx' = cidx + 1
  /\ UNCHANGED <<dirExists, overwrite, cpc, image_files, ret, cruns,
                 prevAllConverted>>

\* the conversion loop ending the run at the first failed file
CvLoop_abort ==
  /\ cpc = "loop" /\ cidx <= Len(image_files)
  /\ LET img_path == SortedFiles[cidx]
         webp_path == WithSuffix(img_path, DotWebp)
     IN
     IF dir[webp_path].kind # "missing" /\ ~overwrite
     THEN /\ skipped_count' = skipped_count + 1
          /\ visits' = Append(visits, Visit(img_path, "skipped"))
          /\ UNCHANGED <<dir, converted_count, error_count, saves, handed,
                         total_original_size, total_webp_size, cpc, ret>>
     ELSE \E env \in CEnvs :
            LET r == convert_image_to_webp(dir, img_path, webp_path, env, cruns) IN
            /\ dir' = r.dir
            /\ saves' = saves \cup r.opened
            /\ handed' = handed \cup
                  {<<dir[img_path].mode, r.handed[i]>> : i \in 1..Len(r.handed)}
            /\ skipped_count' = skipped_count
            /\ visits' = Append(visits, Visit(img_path,
                            IF r.success THEN "converted" ELSE "error"))
            /\ IF r.success
               THEN /\ converted_count' = converted_count + 1
                    /\ total_original_size' = total_original_size + r.original_size
                    /\ total_webp_size' = total_webp_size + r.webp_size
                    /\ UNCHANGED <<error_count, cpc, ret>>
               ELSE /\ error_count' = error_count + 1
                    /\ cpc' = "done"
                    /\ ret' = 1
                    /\ UNCHANGED <<converted_count, total_original_size,
                                   total_webp_size>>
  /\ cidx' = cidx + 1
  /\ UNCHANGED <<dirExists, overwrite, image_files, cruns,
                 prevAllConverted>>

\* one iteration of the conversion loop (lines 126-153)
CvLoop ==
  /\ cpc = "loop" /\ cidx <= Len(image_files)
  /\ LET img_path == SortedFiles[cidx]
         webp_path == WithSuffix(img_path, DotWebp)
     IN
     /\ IF dir[webp_path].kind # "missing" /\ ~overwrite
        THEN /\ skipped_count' = skipped_count + 1
             /\ visits' = Append(visits, Visit(img_path, "skipped"))
             /\ UNCHANGED <<dir, converted_count, error_count, saves, handed,
                            total_original_size, total_webp_size>>
        ELSE \E env \in CEnvs :
               LET r == convert_image_to_webp(dir, img_path, webp_path, env, cruns) IN
               /\ dir' = r.dir
               /\ saves' = saves \cup r.opened
               /\ handed' = handed \cup
                     {<<dir[img_path].mode, r.handed[i]>> : i \in 1..Len(r.handed)}
               /\ skipped_count' = skipped_count
               /\ visits' = Append(visits, Visit(img_path,
                               IF r.success THEN "converted" ELSE "error"))
               /\ IF r.success
                  THEN /\ converted_count' = converted_count + 1
                       /\ total_original_size' = total_original_size + r.original_size
                       /\ total_webp_size' = total_webp_size + r.webp_size
                       /\ error_count' = error_count
                  ELSE /\ error_count' = error_count + 1
                       /\ UNCHANGED <<converted_count, total_original_size,
                                      total_webp_size>>
  /\ cidx' = cidx + 1
  /\ UNCHANGED <<dirExists, overwrite, cpc, image_files, ret, cruns,
                 prevAllConverted>>

\* the summary and the return value (lines 155-171)
CvSummary ==
  /\ cpc = "loop" /\ cidx > Len(image_files)
  /\ ret' = IF error_count = 0 THEN 0 ELSE 1
  /\ cpc' = "done"
  /\ UNCHANGED <<dir, dirExists, overwrite, image_files, cidx, converted_count,
                 skipped_count, error_count, total_original_size,
                 total_webp_size, visits, saves, handed, cruns,
                 prevAllConverted>>

(* ---------------- specifications ---------------- *)
WmIdle ==
  /\ disk = [p \in DiskPaths |-> Missing]
  /\ command = "missing" /\ files = <<>> /\ idx = 1 /\ status = "idle"
  /\ all_good = TRUE /\ calls = <<>> /\ runs = 0

CvIdle ==
  /\ dirExists = FALSE
  /\ dir = [p \in DirPaths |-> Absent]
  /\ overwrite = FALSE /\ cpc = "idle" /\ image_files = <<>> /\ cidx = 1
  /\ converted_count = 0 /\ skipped_count = 0 /\ error_count = 0
  /\ total_original_size = 0 /\ total_webp_size = 0
  /\ visits = <<>> /\ saves = {} /\ handed = {} /\ ret = -1 /\ cruns = 0
  /\ prevAllConverted = FALSE

Commands == {"apply", "verify", "other", "missing"}

\* one invocation of watermark.py with up to MaxArgs file arguments
Init == WmInit /\ CvIdle
Next ==
  \/ \E cmd \in Commands, fl \in ArgLists(MaxArgs) :
        runs = 0 /\ WmStart(cmd, fl) /\ UNCHANGED cvVars
  \/ WmUsage /\ UNCHANGED cvVars
  \/ WmUnknown /\ UNCHANGED cvVars
  \/ ApplyStep /\ UNCHANGED cvVars
  \/ ApplyDone /\ UNCHANGED cvVars
  \/ VerifyStep /\ UNCHANGED cvVars
  \/ VerifyDone /\ UNCHANGED cvVars
Spec == Init /\ [][Next]_vars

\* successive invocations of watermark.py on one file each
NextRT ==
  \/ \E cmd \in {"apply", "verify"}, fl \in ArgLists(1) :
        runs < MaxRuns /\ Len(fl) = 1 /\ WmStart(cmd, fl) /\ UNCHANGED cvVars
  \/ ApplyStep /\ UNCHANGED cvVars
  \/ ApplyDone /\ UNCHANGED cvVars
  \/ VerifyStep /\ UNCHANGED cvVars
  \/ VerifyDone /\ UNCHANGED cvVars
SpecRT == Init /\ [][NextRT]_vars

\* successive invocations of convert_to_webp.py on one directory
InitCV == CvInit /\ WmIdle
NextCV ==
  \/ \E ow \in BOOLEAN : CvNoDir(ow) /\ UNCHANGED wmVars
  \/ \E ow \in BOOLEAN : CvNoFiles(ow) /\ UNCHANGED wmVars
  \/ \E ow \in BOOLEAN : CvFound(ow) /\ UNCHANGED wmVars
  \/ CvLoop /\ UNCHANGED wmVars
  \/ CvSummary /\ UNCHANGED wmVars
SpecCV == InitCV /\ [][NextCV]_vars

(* ---------------- properties of watermark.py ---------------- *)
Last(sq) == sq[Len(sq)]
HasOp(c, op) == \E i \in 1..Len(c.ops) : c.ops[i] = op
Exists(d, path) == d[path].kind # "missing"
\* a call of apply_watermark or verify_watermark returned in this step
Returned == Len(calls') = Len(calls) + 1
\* where a successful apply left the image
ResultPath(c) ==
  IF c.msg.tag = "Converted to PNG and watermarked" THEN c.msg.path ELSE c.path
MsgNonEmpty(m) ==
  /\ m.tag # "None"
  /\ (m.tag = "Error" => m.text # "")

\* C1 as stated: after a successful apply on a non-skip-listed path, a second
\* apply on the same path succeeds, reports 'Already watermarked' and neither
\* encodes nor writes.
C1_SamePathIdempotent ==
  \A i \in 1..(Len(calls) - 1) :
    ( /\ calls[i].fn = "apply" /\ calls[i+1].fn = "apply"
      /\ calls[i].path \notin SKIP_FILES
      /\ calls[i].ok
      /\ calls[i+1].path = calls[i].path )
    => /\ calls[i+1].ok
       /\ calls[i+1].msg.tag = "Already watermarked"
       /\ ~HasOp(calls[i+1], "encode")
       /\ ~HasOp(calls[i+1], "imwrite")

\* C1 amended: after a successful apply on a non-skip-listed path, a second
\* apply on the path where the first left the image (the .png sibling when the
\* first converted a JPEG, the same path otherwise), when that path is not
\* skip-listed, succeeds, reports 'Already watermarked' and neither encodes
\* nor writes nor deletes.
C1_ResultPathIdempotent ==
  \A i \in 1..(Len(calls) - 1) :
    ( /\ calls[i].fn = "apply" /\ calls[i+1].fn = "apply"
      /\ calls[i].path \notin SKIP_FILES
      /\ calls[i].ok
      /\ calls[i+1].path = ResultPath(calls[i])
      /\ calls[i+1].path \notin SKIP_FILES )
    => /\ calls[i+1].ok
       /\ calls[i+1].msg.tag = "Already watermarked"
       /\ ~HasOp(calls[i+1], "encode")
       /\ ~HasOp(calls[i+1], "imwrite")
       /\ ~HasOp(calls[i+1], "remove")

\* a JPEG was converted and apply ran again on the resulting PNG
C1_Witness ==
  \E i \in 1..(Len(calls) - 1) :
    /\ calls[i].fn = "apply" /\ calls[i+1].fn = "apply"
    /\ calls[i].msg.tag = "Converted to PNG and watermarked"
    /\ calls[i+1].path = calls[i].msg.path
    /\ calls[i+1].msg.tag = "Already watermarked"

\* C2 as stated: after a successful apply on a non-skip-listed path, verify on
\* the same path returns true.
C2_SamePathRoundTrip ==
  \A i \in 1..(Len(calls) - 1) :
    ( /\ calls[i].fn = "apply" /\ calls[i+1].fn = "verify"
      /\ calls[i].path \notin SKIP_FILES
      /\ calls[i].ok
      /\ calls[i+1].path = calls[i].path )
    => calls[i+1].ok

\* C2 amended: after a successful apply on a non-skip-listed path, verify on
\* the path where apply left the image (the .png sibling when a JPEG was
\* converted, the same path otherwise) returns true.
C2_ResultPathRoundTrip ==
  \A i \in 1..(Len(calls) - 1) :
    ( /\ calls[i].fn = "apply" /\ calls[i+1].fn = "verify"
      /\ calls[i].path \notin SKIP_FILES
      /\ calls[i].ok
      /\ calls[i+1].path = ResultPath(calls[i]) )
    => calls[i+1].ok

\* an image was watermarked by one process and verified by the next
C2_Witness ==
  \E i \in 1..(Len(calls) - 1) :
    /\ calls[i].fn = "apply" /\ calls[i+1].fn = "verify"
    /\ calls[i].path \notin SKIP_FILES
    /\ HasOp(calls[i], "encode") /\ calls[i].ok
    /\ calls[i+1].path = ResultPath(calls[i])
    /\ HasOp(calls[i+1], "decode") /\ calls[i+1].ok

\* C3: on a skip-listed path apply_watermark and verify_watermark (as the CLI
\* calls them) return success, invoke none of imread, encode, decode, imwrite
\* and os.remove, and leave every file as it was.
C3_SkipListUntouched ==
  [][ (Returned /\ Last(calls').path \in SKIP_FILES)
        => /\ Last(calls').ok
           /\ Last(calls').ops = <<>>
           /\ disk' = disk ]_vars

\* both subcommands have met a skip-listed path whose file is an unmarked image
C3_Witness ==
  /\ \E i \in 1..Len(calls) : calls[i].fn = "apply" /\ calls[i].path \in SKIP_FILES
  /\ \E i \in 1..Len(calls) : calls[i].fn = "verify" /\ calls[i].path \in SKIP_FILES
  /\ \E p \in SKIP_FILES : disk[p].kind = "image" /\ disk[p].payload # WATERMARK_TEXT

C5_Case(c) ==
  /\ c.fn = "apply"
  /\ c.path \notin SKIP_FILES
  /\ IsJpegPath(c.path)
  /\ imread(disk, c.path) # None
  /\ ~verify_watermark(disk, c.path, FALSE).ok

\* C5: on a non-skip-listed, decodable, not yet watermarked .jpg/.jpeg path a
\* successful apply leaves the watermarked image at the same stem with
\* extension .png and the original gone; the original is removed only after a
\* PNG write that reported success; when the write fails apply fails and no
\* file changes; and in every step a JPEG that existed is still there or its
\* PNG exists.
C5_JpegToPng ==
  [][ /\ (Returned /\ C5_Case(Last(calls')))
          => LET c == Last(calls')
                 png == PngPathOf(c.path)
             IN /\ c.ok => /\ disk'[png] = encode(disk[c.path])
                            /\ decode(disk'[png]) = WATERMARK_TEXT
                            /\ ~Exists(disk', c.path)
                            /\ c.msg = Msg("Converted to PNG and watermarked", png)
                /\ ~Exists(disk', c.path) => (c.write = "ok" /\ Exists(disk', png))
                /\ HasOp(c, "remove") => c.write = "ok"
                /\ c.write \in {"false", "raise"} => (~c.ok /\ disk' = disk)
      /\ \A p \in DiskPaths :
           (IsJpegPath(p) /\ Exists(disk, p))
             => (Exists(disk', p) \/ Exists(disk', PngPathOf(p))) ]_vars

\* an upper-case .JPEG was converted: the PNG carries the watermark and the
\* original is gone
C5_Witness ==
  \E i \in 1..Len(calls) :
    /\ calls[i].fn = "apply" /\ calls[i].ok
    /\ calls[i].path = AJpeg
    /\ calls[i].msg.tag = "Converted to PNG and watermarked"
    /\ ~Exists(disk, AJpeg)
    /\ disk[APng].kind = "image" /\ disk[APng].payload = WATERMARK_TEXT

\* C6: the apply subcommand calls apply_watermark on its arguments in order;
\* the first failure ends the process with status 1 and nothing is called for
\* the later arguments; when no call fails every argument is processed and
\* the status is 0.
C6_ApplyAbortsAtFirstFailure ==
  command = "apply" =>
    /\ Len(calls) <= Len(files)
    /\ \A i \in 1..Len(calls) : calls[i].fn = "apply" /\ calls[i].path = files[i]
    /\ \A i \in 1..(Len(calls) - 1) : calls[i].ok
    /\ (Len(calls) > 0 /\ ~Last(calls).ok) <=> status = "exit1"
    /\ status = "exit0" => Len(calls) = Len(files)
    /\ status = "running" => idx = Len(calls) + 1

\* the first argument failed and the second, an unmarked image that apply
\* would have rewritten, is as it was
C6_Witness ==
  /\ command = "apply" /\ status = "exit1"
  /\ Len(files) = 2 /\ Len(calls) = 1
  /\ files[2] \notin SKIP_FILES /\ files[2] # files[1]
  /\ disk[files[2]].kind = "image" /\ ~disk[files[2]].small
  /\ disk[files[2]].payload # WATERMARK_TEXT

(* ---------------- properties of convert_to_webp.py ---------------- *)
Range(sq) == {sq[i] : i \in 1..Len(sq)}
Present(d) == {p \in DOMAIN d : d[p].kind # "missing"}
\* the scan has just run on dir
Scanned ==
  \/ cpc = "loop" /\ cidx = 1
  \/ cpc = "done" /\ dirExists /\ image_files = <<>>

\* C7: the files the converter considers are exactly the direct entries of the
\* input directory whose extension is .jpg, .jpeg or .png in any spelling of
\* upper and lower case.
C7_ScanCaseInsensitive ==
  Scanned =>
    Range(image_files) =
      {p \in Present(dir) : /\ RFind(p, "/") = 0
                            /\ Lower(SuffixOf(p)) \in Range(supported_formats)}

\* C8: the image handed to the encoder is RGBA for a P or LA source, the
\* source mode for RGB and RGBA, and RGB for every other mode, so the encoder
\* only receives RGB or RGBA.
C8_EncoderModes ==
  \A h \in handed :
    /\ h[2] = (IF h[1] \in {"P", "LA"} THEN "RGBA"
               ELSE IF h[1] \in {"RGB", "RGBA"} THEN h[1] ELSE "RGB")
    /\ h[2] \in {"RGB", "RGBA"}

\* one iteration of the conversion loop ran in this step
Iterated == cpc = "loop" /\ cidx' = cidx + 1

C9_Step ==
  Iterated =>
    LET img_path == SortedFiles[cidx]
        webp_path == WithSuffix(img_path, DotWebp)
    IN /\ webp_path = RSplitDot(img_path) \o DotWebp
       /\ (~overwrite /\ Exists(dir, webp_path))
            => /\ skipped_count' = skipped_count + 1
               /\ converted_count' = converted_count
               /\ error_count' = error_count
               /\ saves' = saves
               /\ dir' = dir
       /\ overwrite
            => /\ skipped_count' = skipped_count
               /\ converted_count' + error_count' = converted_count + error_count + 1
               /\ dir[img_path].kind = "image" => webp_path \in saves'

C9_SecondRun ==
  (cruns >= 2 /\ prevAllConverted /\ ~overwrite /\ cpc = "loop")
    => /\ converted_count' = 0
       /\ error_count' = 0
       /\ skipped_count' = Len(visits')
       /\ saves' = {}
       /\ dir' = dir

\* C9: without --overwrite a source whose .webp output exists is counted as
\* skipped and its output is neither opened for writing nor changed, so a run
\* without --overwrite right after a run that converted every file converts
\* nothing and leaves every output as it was; with --overwrite every found
\* source is converted whether or not its output exists.
C9_SkipExistingOutput == [][C9_Step /\ C9_SecondRun]_vars

\* a second run without --overwrite, after a run that converted every file,
\* has skipped a file whose output the first run wrote
C9_Witness ==
  /\ cruns = 2 /\ prevAllConverted /\ ~overwrite /\ cpc = "done"
  /\ skipped_count > 0
  /\ \E i \in 1..Len(visits) :
        dir[WithSuffix(visits[i].path, DotWebp)] =
          Webp(NormalizeMode(dir[visits[i].path].mode), 1)

\* C10: a failing conversion is counted as an error and the loop goes on:
\* every found file is visited exactly once, in sorted order, and converted +
\* skipped + errored is the number of files found; main returns 1 exactly
\* when a file errored or the input directory is missing, 0 otherwise.
C10_ErrorsCountedBatchContinues ==
  /\ cpc \in {"loop", "done"} =>
       /\ Len(visits) = cidx - 1
       /\ \A i \in 1..Len(visits) : visits[i].path = SortedFiles[i]
       /\ \A i, j \in 1..Len(visits) : i # j => visits[i].path # visits[j].path
       /\ converted_count + skipped_count + error_count = Len(visits)
       /\ converted_count =
            Cardinality({i \in 1..Len(visits) : visits[i].outcome = "converted"})
       /\ error_count =
            Cardinality({i \in 1..Len(visits) : visits[i].outcome = "error"})
  /\ cpc = "done" =>
       /\ Len(visits) = Len(image_files)
       /\ converted_count + skipped_count + error_count = Len(image_files)
       /\ ret \in {0, 1}
       /\ ret = 1 <=> (error_count > 0 \/ ~dirExists)
  /\ cpc = "loop" => ret = -1

\* a run ended with status 1 after an error on one file and a conversion of a
\* later one
C10_Witness ==
  /\ cpc = "done" /\ ret = 1
  /\ \E i, j \in 1..Len(visits) :
        i < j /\ visits[i].outcome = "error" /\ visits[j].outcome = "converted"

====
